---- MODULE Spec2Model ----
(***************************************************************************)
(* A model of the tinyOS priority scheduler (src/os/scheduler.c): the      *)
(* scheduler singleton `sched`, the ready FIFOs linked through the TCBs'   *)
(* `next` pointers, the timer tick, the SWI handler and the context-switch *)
(* primitive, together with main()'s call sequence (src/main.c).           *)
(*                                                                         *)
(* A pointer to task_pool[i] is the integer i + 1; NULL is 0.  Addresses   *)
(* of stacks are counted in 32-bit words.                                  *)
(***************************************************************************)
EXTENDS Integers, Sequences, FiniteSets, TLC

(* ------------------------------------------------------------------ *)
(* Program constants                                                   *)
(* ------------------------------------------------------------------ *)
MAX_PRIORITIES == 32
MAX_TASKS == 16

TASK_READY == 0
TASK_RUNNING == 1
TASK_SLEEPING == 2
TASK_BLOCKED == 3
TASK_STOPPED == 4

NULL == 0

STACK_SIZE == 4096

\* Entry address of the first demo task and word address of its stack; the
\* caller gives the i-th task it creates the i-th entry function and the i-th
\* stack array, as main() does with task1/stack1 and task2/stack2.
task1 == 257
stack1 == 8192

\* Address of the label "1:" inside task_switch, saved as the resume PC.
SWITCH_RESUME == 513

(* ------------------------------------------------------------------ *)
(* Bounds of the model                                                 *)
(* ------------------------------------------------------------------ *)
\* Tasks created in the general specification.
MaxCreate == 2
\* Timer ticks since scheduler_init.
MaxTicks == 3
\* Largest argument of sleep().
MaxSleep == 1
\* Timer ticks in the pool-exhaustion specification.
MaxPoolTicks == 2
\* task_create calls made beyond the capacity of the pool.
MaxOverflow == 1
\* scheduler_init calls made in a row.
MaxInits == 2
\* The largest stack size, in words, passed to task_create.
MaxStackWords == 33
\* The largest value the running task leaves in a register.
MaxRegVal == 1

Prios == {0, 5}
PoolPrios == {0}

\* The arguments main() passes for the i-th task it creates.
func_of(i) == task1 + (i - 1)
stack_of(i) == stack1 + (i - 1) * STACK_SIZE

PrioRange == 0 .. (MAX_PRIORITIES - 1)
Slots == 1 .. MAX_TASKS

VARIABLES
    sched,        \* the scheduler_t singleton
    cpu,          \* the CPU registers the context switch saves and restores
    mainpc,       \* where main() is: "boot", "init", "started", "halted", "lost"
    nticks,       \* timer ticks handled since the last scheduler_init
    dispatched,   \* current after scheduler_start and after every later tick
    sleepLog,     \* per slot: the last sleep() call of the task in it
    ntasks0,      \* task_count when scheduler_start dispatched
    nullSwitch,   \* task_switch has been invoked with a NULL outgoing TCB
    creates,      \* task_create calls made since the last scheduler_init
    irq,          \* the CPU takes IRQs (the I bit of the CPSR is clear)
    mainop,       \* how far main() is inside a scheduler call it is making
    inits         \* scheduler_init calls made since the last task_create

vars == <<sched, cpu, mainpc, nticks, dispatched, sleepLog, ntasks0, nullSwitch,
          creates, irq, mainop, inits>>

(* ------------------------------------------------------------------ *)
(* 32-bit bitmap arithmetic                                            *)
(* ------------------------------------------------------------------ *)
\* A uint32_t bitmap is the set of the positions (0..31) of its 1 bits, so
\* that bit 31 needs no integer beyond TLC's 32-bit signed range; 0 is {}.
NoBits == {}

\* (bits >> p) & 1
BitSet(bits, p) == p \in bits

\* bits | (1u << p)
BitOr(bits, p) == bits \cup {p}

\* bits & ~(1u << p)
BitClear(bits, p) == bits \ {p}

\* Mutant of ctz: the position of the highest 1 bit, as a scan from the wrong
\* end of the word would give.
ctz_highest(bits) == CHOOSE p \in bits : \A q \in bits : p >= q

\* __builtin_ctz(bits), bits # 0: the position of the lowest 1 bit
ctz(bits) == CHOOSE p \in bits : \A q \in bits : p <= q

(* ------------------------------------------------------------------ *)
(* Data                                                                *)
(* ------------------------------------------------------------------ *)
ZeroRegs == [i \in 1..8 |-> 0]

\* A task_t all of whose bytes are zero (state 0 is TASK_READY).
ZeroTask ==
    [ stack |-> 0, stack_size |-> 0, sp |-> 0, regs |-> ZeroRegs, lr |-> 0,
      pc |-> 0, next |-> NULL, priority |-> 0, state |-> TASK_READY,
      wake_tick |-> 0 ]

\* The scheduler_t after memzero.
ZeroSched ==
    [ ready_head   |-> [p \in PrioRange |-> NULL],
      ready_tail   |-> [p \in PrioRange |-> NULL],
      ready_bitmap |-> NoBits,
      task_pool    |-> [i \in Slots |-> ZeroTask],
      task_count   |-> 0,
      current      |-> NULL,
      tick         |-> 0 ]

\* sizeof(task_t) and sizeof(scheduler_t) in 32-bit words: stack, stack_size,
\* sp, regs[8], lr, pc, next, priority (padded), state, wake_tick; then
\* ready_head[], ready_tail[], ready_bitmap, task_pool[], task_count, current,
\* tick.
TaskWords == 3 + 8 + 6
SchedWords == 2 * MAX_PRIORITIES + 1 + MAX_TASKS * TaskWords + 3

\* What memzero leaves in the word at offset off when it clears n words.
zeroed(off, n, old) == IF off < n THEN 0 ELSE old

\* memzero over a task_t that starts at word offset b.
memzero_task(t, b, n) ==
    [ stack      |-> zeroed(b, n, t.stack),
      stack_size |-> zeroed(b + 1, n, t.stack_size),
      sp         |-> zeroed(b + 2, n, t.sp),
      regs       |-> [i \in 1..8 |-> zeroed(b + 2 + i, n, t.regs[i])],
      lr         |-> zeroed(b + 11, n, t.lr),
      pc         |-> zeroed(b + 12, n, t.pc),
      next       |-> zeroed(b + 13, n, t.next),
      priority   |-> zeroed(b + 14, n, t.priority),
      state      |-> zeroed(b + 15, n, t.state),
      wake_tick  |-> zeroed(b + 16, n, t.wake_tick) ]

\* memzero(&sched, 4 * n): the first n words of the scheduler_t are cleared.
memzero(s, n) ==
    LET pool == 2 * MAX_PRIORITIES + 1
        tail == pool + MAX_TASKS * TaskWords
    IN  [ ready_head   |-> [p \in PrioRange |-> zeroed(p, n, s.ready_head[p])],
          ready_tail   |-> [p \in PrioRange |->
                              zeroed(MAX_PRIORITIES + p, n, s.ready_tail[p])],
          ready_bitmap |-> IF 2 * MAX_PRIORITIES < n THEN NoBits
                           ELSE s.ready_bitmap,
          task_pool    |-> [i \in Slots |->
                              memzero_task(s.task_pool[i],
                                           pool + (i - 1) * TaskWords, n)],
          task_count   |-> zeroed(tail, n, s.task_count),
          current      |-> zeroed(tail + 1, n, s.current),
          tick         |-> zeroed(tail + 2, n, s.tick) ]

\* Mutant of scheduler_init: the size of a pointer to sched is passed instead
\* of the size of sched, so one word is cleared.
scheduler_init_ptrsize(s) == memzero(s, 1)

\* scheduler_init: memzero(&sched, sizeof(sched)).
scheduler_init(s) == memzero(s, SchedWords)

\* main() is between scheduler calls.
Idle == [ at |-> "idle", arg |-> 0 ]

\* The CPU at reset, executing main() on the boot stack.
BootCpu == [ regs |-> ZeroRegs, sp |-> 0, lr |-> 0, pc |-> 0 ]

NoSleep == [ k |-> -1, at |-> 0, switched |-> FALSE ]

(* ------------------------------------------------------------------ *)
(* Ready queue helpers                                                 *)
(* ------------------------------------------------------------------ *)
\* Mutant of ready_enqueue: the task is pushed at the head of its FIFO.
ready_enqueue_lifo(s, t) ==
    LET p  == s.task_pool[t].priority % 32
        s1 == [s EXCEPT !.task_pool[t].next = s.ready_head[p]]
    IN  IF s1.ready_head[p] = NULL
        THEN [s1 EXCEPT !.ready_head[p] = t,
                        !.ready_tail[p] = t,
                        !.ready_bitmap = BitOr(s1.ready_bitmap, p)]
        ELSE [s1 EXCEPT !.ready_head[p] = t]

\* Mutant of ready_enqueue: appending to a non-empty FIFO forgets to move
\* ready_tail to the new last element.
ready_enqueue_stale_tail(s, t) ==
    LET p  == s.task_pool[t].priority % 32
        s1 == [s EXCEPT !.task_pool[t].next = NULL]
    IN  IF s1.ready_head[p] = NULL
        THEN [s1 EXCEPT !.ready_head[p] = t,
                        !.ready_tail[p] = t,
                        !.ready_bitmap = BitOr(s1.ready_bitmap, p)]
        ELSE [s1 EXCEPT !.task_pool[s1.ready_tail[p]].next = t]

ready_enqueue(s, t) ==
    LET p  == s.task_pool[t].priority % 32
        s1 == [s EXCEPT !.task_pool[t].next = NULL]
    IN  IF s1.ready_head[p] = NULL
        THEN [s1 EXCEPT !.ready_head[p] = t,
                        !.ready_tail[p] = t,
                        !.ready_bitmap = BitOr(s1.ready_bitmap, p)]
        ELSE [s1 EXCEPT !.task_pool[s1.ready_tail[p]].next = t,
                        !.ready_tail[p] = t]

\* The while loop of ready_dequeue; fuel bounds the walk of the model (a
\* cyclic list would make the code loop forever).
RECURSIVE dequeue_walk(_, _, _, _, _, _)
dequeue_walk(s, t, p, prev, cur, fuel) ==
    IF cur = NULL \/ fuel = 0 THEN s
    ELSE IF cur = t
    THEN LET nxt == s.task_pool[cur].next
             s1  == IF prev # NULL
                    THEN [s EXCEPT !.task_pool[prev].next = nxt]
                    ELSE [s EXCEPT !.ready_head[p] = nxt]
             s2  == IF s1.ready_tail[p] = cur
                    THEN [s1 EXCEPT !.ready_tail[p] = prev]
                    ELSE s1
         IN  [s2 EXCEPT !.task_pool[cur].next = NULL]
    ELSE dequeue_walk(s, t, p, cur, s.task_pool[cur].next, fuel - 1)

ready_dequeue(s, t) ==
    LET p == s.task_pool[t].priority % 32
    IN  dequeue_walk(s, t, p, NULL, s.ready_head[p], MAX_TASKS + 1)

\* The inner while loop of pick_next_task: the first READY task from cur on.
RECURSIVE pick_walk(_, _, _)
pick_walk(s, cur, fuel) ==
    IF cur = NULL \/ fuel = 0 THEN NULL
    ELSE IF s.task_pool[cur].state = TASK_READY THEN cur
    ELSE pick_walk(s, s.task_pool[cur].next, fuel - 1)

\* The outer while loop of pick_next_task.
RECURSIVE pick_scan(_, _)
pick_scan(s, bits) ==
    IF bits = NoBits THEN NULL
    ELSE LET p     == ctz(bits)
             found == pick_walk(s, s.ready_head[p], MAX_TASKS + 1)
         IN  IF found # NULL THEN found
             ELSE pick_scan(s, BitClear(bits, p))

\* Mutant of pick_next_task: the task found is dequeued before it is returned.
pick_next_task_dequeue(s) ==
    LET found == IF s.ready_bitmap = NoBits THEN NULL
                 ELSE pick_scan(s, s.ready_bitmap)
    IN  [ s |-> IF found = NULL THEN s ELSE ready_dequeue(s, found),
          t |-> found ]

\* Mutant of pick_next_task: the pool is scanned for a slot whose state is
\* TASK_READY, which is also the state of a slot that was only zeroed.
pick_next_task_pool(s) ==
    [ s |-> s,
      t |-> IF \E i \in Slots : s.task_pool[i].state = TASK_READY
            THEN CHOOSE i \in Slots :
                    /\ s.task_pool[i].state = TASK_READY
                    /\ \A j \in Slots :
                          s.task_pool[j].state = TASK_READY => i <= j
            ELSE NULL ]

\* pick_next_task: t is the task returned, s the scheduler state it leaves.
pick_next_task(s) ==
    [ s |-> s,
      t |-> IF s.ready_bitmap = NoBits THEN NULL
            ELSE pick_scan(s, s.ready_bitmap) ]

(* ------------------------------------------------------------------ *)
(* Context switch                                                      *)
(* ------------------------------------------------------------------ *)
\* Mutant of task_switch: the outgoing stack pointer is not stored.
task_switch_no_sp(s, c, curr, next) ==
    LET s1 == IF curr # NULL
              THEN [s EXCEPT !.task_pool[curr].regs = c.regs,
                             !.task_pool[curr].lr   = c.lr,
                             !.task_pool[curr].pc   = SWITCH_RESUME]
              ELSE s
        n  == s1.task_pool[next]
    IN  [ s |-> s1,
          c |-> [regs |-> n.regs, sp |-> n.sp, lr |-> n.lr, pc |-> n.pc] ]

\* task_switch(curr, next): the outgoing registers go to curr's save area,
\* the incoming ones come from next's.  With curr = NULL the stores go
\* through a null pointer and reach no TCB.
task_switch(s, c, curr, next) ==
    LET s1 == IF curr # NULL
              THEN [s EXCEPT !.task_pool[curr].regs = c.regs,
                             !.task_pool[curr].sp   = c.sp,
                             !.task_pool[curr].lr   = c.lr,
                             !.task_pool[curr].pc   = SWITCH_RESUME]
              ELSE s
        n  == s1.task_pool[next]
    IN  [ s |-> s1,
          c |-> [regs |-> n.regs, sp |-> n.sp, lr |-> n.lr, pc |-> n.pc] ]

(* ------------------------------------------------------------------ *)
(* SWI handler                                                         *)
(* ------------------------------------------------------------------ *)
\* Mutant of swi_handler: the handler returns early only when next == curr,
\* so with no Ready task the running task is demoted and current is NULL.
swi_handler_no_null_check(s, c) ==
    LET curr == s.current
        s0   == IF curr # NULL THEN ready_dequeue(s, curr) ELSE s
        pick == pick_next_task(s0)
        s1   == pick.s
        next == pick.t
    IN  IF next = curr
        THEN [ s |-> s1, c |-> c, switched |-> FALSE, from |-> curr ]
        ELSE LET s2 == IF curr # NULL /\ s1.task_pool[curr].state = TASK_RUNNING
                       THEN ready_enqueue(
                              [s1 EXCEPT !.task_pool[curr].state = TASK_READY],
                              curr)
                       ELSE s1
             IN  IF next = NULL
                 THEN [ s |-> [s2 EXCEPT !.current = NULL], c |-> c,
                        switched |-> FALSE, from |-> curr ]
                 ELSE LET s3 == [s2 EXCEPT !.current = next,
                                           !.task_pool[next].state = TASK_RUNNING]
                          r  == task_switch(s3, c, curr, next)
                      IN  [ s |-> r.s, c |-> r.c, switched |-> TRUE,
                            from |-> curr ]

\* swi_handler: the running task is taken off its FIFO, the next task is
\* picked, and unless there is none the CPU is switched to it.
swi_handler(s, c) ==
    LET curr == s.current
        s0   == IF curr # NULL THEN ready_dequeue(s, curr) ELSE s
        pick == pick_next_task(s0)
        s1   == pick.s
        next == pick.t
    IN  IF next = NULL \/ next = curr
        THEN [ s |-> s1, c |-> c, switched |-> FALSE, from |-> curr ]
        ELSE LET s2 == IF curr # NULL /\ s1.task_pool[curr].state = TASK_RUNNING
                       THEN ready_enqueue(
                              [s1 EXCEPT !.task_pool[curr].state = TASK_READY],
                              curr)
                       ELSE s1
                 s3 == [s2 EXCEPT !.current = next,
                                  !.task_pool[next].state = TASK_RUNNING]
                 r  == task_switch(s3, c, curr, next)
             IN  [ s |-> r.s, c |-> r.c, switched |-> TRUE, from |-> curr ]

(* ------------------------------------------------------------------ *)
(* Timer tick                                                          *)
(* ------------------------------------------------------------------ *)
\* The body of the for loop of timer0_irq_handler for one task.
tick_task(t) ==
    IF t.state = TASK_SLEEPING /\ t.wake_tick > 0
    THEN IF t.wake_tick - 1 = 0
         THEN [t EXCEPT !.wake_tick = 0, !.state = TASK_READY]
         ELSE [t EXCEPT !.wake_tick = t.wake_tick - 1]
    ELSE t

\* "Decrement all sleepers": the loop over task_pool[0 .. task_count).
decrement_sleepers(s) ==
    [s EXCEPT !.task_pool =
        [i \in Slots |-> IF i <= s.task_count
                         THEN tick_task(s.task_pool[i])
                         ELSE s.task_pool[i]]]

timer0_irq_handler(s, c) == swi_handler(decrement_sleepers(s), c)

(* ------------------------------------------------------------------ *)
(* Task lifecycle                                                      *)
(* ------------------------------------------------------------------ *)
\* The initial stack pointer task_create prepares.
\* Mutant of initial_sp: the stack pointer starts at the top of the buffer,
\* one word past its end.
initial_sp_top(stack, size) == stack + size

initial_sp(stack, size) ==
    IF size >= 32 THEN stack + size - 16 ELSE stack + size - 1

\* The guard of task_create: the pool is full.
pool_full(s) == s.task_count >= MAX_TASKS

\* task_t *t = &sched.task_pool[sched.task_count++]: t is the new task_count.
slot_alloc(s) == [s EXCEPT !.task_count = s.task_count + 1]

\* The assignments of task_create to the fields of *t.
slot_fill(s, t, func, stack, size, priority) ==
    [s EXCEPT !.task_pool[t] =
        [ stack      |-> stack,
          stack_size |-> size,
          sp         |-> initial_sp(stack, size),
          regs       |-> ZeroRegs,
          lr         |-> 0,
          pc         |-> func,
          next       |-> NULL,
          priority   |-> priority % 32,
          state      |-> TASK_READY,
          wake_tick  |-> 0 ]]

\* Mutant of create_slot: the slot is taken without the post-increment of
\* task_count.
create_slot_no_increment(s, func, stack, size, priority) ==
    LET t == s.task_count + 1
    IN  ready_enqueue(slot_fill(s, t, func, stack, size, priority), t)

\* task_create past its guard: take the next pool slot, fill it, enqueue it.
create_slot(s, func, stack, size, priority) ==
    LET s1 == slot_alloc(s)
        t  == s1.task_count
    IN  ready_enqueue(slot_fill(s1, t, func, stack, size, priority), t)

\* Mutant of task_create: the capacity check is missing, so a call on a full
\* pool still counts a task (its TCB lands beyond task_pool).
task_create_unguarded(s, func, stack, size, priority) ==
    IF s.task_count < MAX_TASKS
    THEN create_slot(s, func, stack, size, priority)
    ELSE [s EXCEPT !.task_count = s.task_count + 1]

task_create(s, func, stack, size, priority) ==
    IF pool_full(s) THEN s
    ELSE create_slot(s, func, stack, size, priority)

(* ------------------------------------------------------------------ *)
(* Actions                                                             *)
(* ------------------------------------------------------------------ *)
Init ==
    /\ sched = ZeroSched
    /\ cpu = BootCpu
    /\ mainpc = "boot"
    /\ nticks = 0
    /\ dispatched = << >>
    /\ sleepLog = [i \in Slots |-> NoSleep]
    /\ ntasks0 = 0
    /\ nullSwitch = FALSE
    /\ creates = 0
    /\ irq = FALSE
    /\ mainop = Idle
    /\ inits = 0

\* scheduler_init(), called by main() before scheduler_start.
SchedulerInit ==
    /\ mainpc \in {"boot", "init"}
    /\ mainop = Idle
    /\ inits < MaxInits
    /\ sched' = scheduler_init(sched)
    /\ irq' = TRUE
    /\ mainpc' = "init"
    /\ nticks' = 0
    /\ dispatched' = << >>
    /\ sleepLog' = [i \in Slots |-> NoSleep]
    /\ creates' = 0
    /\ inits' = inits + 1
    /\ UNCHANGED <<cpu, ntasks0, nullSwitch, mainop>>

\* task_create(), called by main() or by the running task.
CreateSized(size, prio) ==
    /\ mainpc \in {"init", "started", "lost"}
    /\ mainop = Idle
    /\ LET i == sched.task_count + 1
       IN  sched' = task_create(sched, func_of(i), stack_of(i), size, prio)
    /\ creates' = creates + 1
    /\ inits' = 0
    /\ UNCHANGED <<cpu, mainpc, nticks, dispatched, sleepLog, ntasks0, nullSwitch,
                   irq, mainop>>

CreateWith(prio) == CreateSized(STACK_SIZE, prio)

TaskCreate ==
    /\ sched.task_count < MaxCreate
    /\ \E prio \in Prios : CreateWith(prio)

\* sched.current = first; first->state = TASK_RUNNING.
start_dispatch(s, first) ==
    [s EXCEPT !.current = first, !.task_pool[first].state = TASK_RUNNING]

\* scheduler_start(), called by main().
SchedulerStart ==
    /\ mainpc = "init"
    /\ mainop = Idle
    /\ LET pick  == pick_next_task(sched)
           first == pick.t
       IN  IF first = NULL
           THEN /\ mainpc' = "halted"
                /\ sched' = pick.s
                /\ UNCHANGED <<cpu, dispatched, ntasks0>>
           ELSE /\ sched' = start_dispatch(pick.s, first)
                /\ cpu' = [cpu EXCEPT !.sp = pick.s.task_pool[first].sp,
                                      !.pc = pick.s.task_pool[first].pc]
                /\ mainpc' = "started"
                /\ dispatched' = <<first>>
                /\ ntasks0' = sched.task_count
    /\ UNCHANGED <<nticks, sleepLog, nullSwitch, creates, irq, mainop, inits>>

\* sleep(ms), called by whatever code is executing.
Sleep(ms) ==
    /\ mainpc \in {"init", "started", "lost"}
    /\ mainop = Idle
    /\ IF sched.current = NULL
       THEN UNCHANGED <<sched, cpu, sleepLog, mainpc, nullSwitch>>
       ELSE LET t  == sched.current
                s1 == [sched EXCEPT !.task_pool[t].wake_tick = ms,
                                    !.task_pool[t].state = TASK_SLEEPING]
                r  == swi_handler(s1, cpu)
            IN  /\ sched' = r.s
                /\ cpu' = r.c
                /\ sleepLog' = [sleepLog EXCEPT ![t] =
                                  [k |-> ms, at |-> nticks, switched |-> r.switched]]
                /\ UNCHANGED <<mainpc, nullSwitch>>
    /\ UNCHANGED <<nticks, dispatched, ntasks0, creates, irq, mainop, inits>>

\* The timer interrupt: timer0_irq_handler, which ends in the SWI handler.
TickWithin(bound) ==
    /\ irq
    /\ nticks < bound
    /\ LET r == timer0_irq_handler(sched, cpu)
       IN  /\ sched' = r.s
           /\ cpu' = r.c
           /\ nticks' = nticks + 1
           /\ dispatched' = IF r.s.current # NULL
                            THEN Append(dispatched, r.s.current)
                            ELSE dispatched
           /\ nullSwitch' = (nullSwitch \/ (r.switched /\ r.from = NULL))
           /\ mainpc' = IF r.switched /\ mainpc \in {"boot", "init"}
                        THEN "lost" ELSE mainpc
    /\ UNCHANGED <<sleepLog, ntasks0, creates, irq, mainop, inits>>

Tick == TickWithin(MaxTicks)

Next ==
    \/ SchedulerInit
    \/ TaskCreate
    \/ SchedulerStart
    \/ \E ms \in 0 .. MaxSleep : Sleep(ms)
    \/ Tick

Spec == Init /\ [][Next]_vars

(* ------------------------------------------------------------------ *)
(* Pool exhaustion: the task pool filled to capacity and beyond        *)
(* ------------------------------------------------------------------ *)
PoolCreate ==
    /\ creates < MAX_TASKS + MaxOverflow
    /\ \E prio \in PoolPrios : CreateWith(prio)

PoolTick == TickWithin(MaxPoolTicks)

NextPool ==
    \/ SchedulerInit
    \/ PoolCreate
    \/ SchedulerStart
    \/ PoolTick

SpecPool == Init /\ [][NextPool]_vars

(* ------------------------------------------------------------------ *)
(* Views of the state used by the properties                           *)
(* ------------------------------------------------------------------ *)
\* The tasks created so far: the live slots of task_pool.
Created(s) == 1 .. s.task_count

\* The TCBs met walking from cur along next (at most fuel of them).
RECURSIVE chain(_, _, _)
chain(s, cur, fuel) ==
    IF cur = NULL \/ fuel = 0 THEN << >>
    ELSE <<cur>> \o chain(s, s.task_pool[cur].next, fuel - 1)

\* The ready FIFO of priority p, head first.
Fifo(s, p) == chain(s, s.ready_head[p], MAX_TASKS + 1)

OnFifo(s, t, p) == \E i \in DOMAIN Fifo(s, p) : Fifo(s, p)[i] = t

OnReadyQueue(s, t) == \E p \in PrioRange : OnFifo(s, t, p)

\* A step of the timer tick (the only step that increments nticks).
TickStep == nticks' = nticks + 1

\* Ticks handled since task t last called sleep().
SleepAge(t) == nticks - sleepLog[t].at

\* What the ticks since t's last sleep() call made current, oldest first.
DispatchedSinceSleep(t) ==
    SubSeq(dispatched, Len(dispatched) - SleepAge(t) + 1, Len(dispatched))

(* ------------------------------------------------------------------ *)
(* C1  Priority strictness                                             *)
(* ------------------------------------------------------------------ *)
\* C1: after scheduler_start, a tick that makes another task current never
\* picks a task of lower priority (higher number) than some task that is
\* Ready once the tick is over (the preempted task counts as Ready after its
\* rotation).
C1_PriorityStrictness ==
    [][ (TickStep /\ mainpc = "started" /\ sched'.current # sched.current)
        => \A u \in Created(sched') :
              sched'.task_pool[u].state = TASK_READY
              => sched'.task_pool[u].priority
                   >= sched'.task_pool[sched'.current].priority ]_vars

(* ------------------------------------------------------------------ *)
(* C2  Sleep timing                                                    *)
(* ------------------------------------------------------------------ *)
\* C2: a task that called sleep(k), k >= 1, is not made current by any of
\* the next k - 1 ticks, and when the k-th tick is over it is Ready and a
\* member of the ready FIFO of its priority.
C2_SleepTiming ==
    [][ TickStep
        => \A t \in Created(sched) :
              LET k   == sleepLog[t].k
                  age == nticks' - sleepLog[t].at
              IN  k >= 1
                  => /\ (age < k /\ sched'.current = t) => sched.current = t
                     /\ age = k
                        => /\ sched'.task_pool[t].state = TASK_READY
                           /\ OnFifo(sched', t, sched'.task_pool[t].priority)
      ]_vars

(* ------------------------------------------------------------------ *)
(* C3  Resumption after sleep                                          *)
(* ------------------------------------------------------------------ *)
\* Every other task has a strictly lower priority than t.
OthersLower(s, t) ==
    /\ s.task_count >= 2
    /\ \A u \in Created(s) \ {t} :
          s.task_pool[u].priority > s.task_pool[t].priority

\* C3: a task that called sleep(k), k >= 1, and was switched out for a
\* lower-priority task has been made current again by one of the next k + 1
\* ticks.
C3_ResumesAfterSleep ==
    \A t \in Created(sched) :
        ( /\ mainpc = "started"
          /\ sleepLog[t].k >= 1
          /\ sleepLog[t].switched
          /\ OthersLower(sched, t)
          /\ SleepAge(t) >= sleepLog[t].k + 1 )
        => \E i \in DOMAIN DispatchedSinceSleep(t) :
              DispatchedSinceSleep(t)[i] = t

(* ------------------------------------------------------------------ *)
(* C4  Round-robin fairness                                            *)
(* ------------------------------------------------------------------ *)
NoSleepEver == \A t \in Slots : sleepLog[t].k = -1

SamePriority(s) ==
    \A t, u \in Created(s) : s.task_pool[t].priority = s.task_pool[u].priority

\* N tasks of one priority were created before scheduler_start, none has
\* called sleep and none was created since.
RoundRobinCase ==
    /\ mainpc = "started"
    /\ NoSleepEver
    /\ sched.task_count = ntasks0
    /\ SamePriority(sched)

\* C4: with N tasks of one priority and no sleeper, scheduler_start and the
\* ticks after it make current T1, T2, ..., TN, T1, ... in creation order, so
\* any N consecutive ticks dispatch each task exactly once.
C4_RoundRobin ==
    RoundRobinCase
    => /\ \A i \in DOMAIN dispatched :
             dispatched[i] = ((i - 1) % ntasks0) + 1
       /\ sched.current = dispatched[Len(dispatched)]

\* Two tasks of one priority have been dispatched T1, T2, T1.
C4_Witness ==
    /\ RoundRobinCase
    /\ ntasks0 = 2
    /\ Len(dispatched) >= 3
    /\ sched.current = 1

(* ------------------------------------------------------------------ *)
(* C5  Bitmap consistency                                              *)
(* ------------------------------------------------------------------ *)
\* C5: bit p of ready_bitmap is set if and only if ready_head[p] is
\* non-null, for every priority p.
C5_BitmapConsistency ==
    \A p \in PrioRange :
        BitSet(sched.ready_bitmap, p) <=> sched.ready_head[p] # NULL

(* ------------------------------------------------------------------ *)
(* C6  State/list agreement                                            *)
(* ------------------------------------------------------------------ *)
\* C6: a created task has state Ready if and only if it is a member of a
\* ready FIFO (so the Running task is on none, and a woken task is on one).
C6_StateListAgreement ==
    \A t \in Created(sched) :
        sched.task_pool[t].state = TASK_READY <=> OnReadyQueue(sched, t)

(* ------------------------------------------------------------------ *)
(* C7  current is the one Running task                                 *)
(* ------------------------------------------------------------------ *)
\* C7: once scheduler_start has dispatched, current is non-null, its state
\* is Running, and no other task is Running.
C7_CurrentRunning ==
    mainpc = "started"
    => /\ sched.current # NULL
       /\ sched.task_pool[sched.current].state = TASK_RUNNING
       /\ \A t \in Created(sched) \ {sched.current} :
             sched.task_pool[t].state # TASK_RUNNING

(* ------------------------------------------------------------------ *)
(* C8  List disjointness                                               *)
(* ------------------------------------------------------------------ *)
\* The places (priority, position) at which TCB t occurs in the ready FIFOs.
Occurrences(s, t) ==
    UNION { { <<p, i>> : i \in { j \in DOMAIN Fifo(s, p) : Fifo(s, p)[j] = t } } :
            p \in { q \in PrioRange : s.ready_head[q] # NULL } }

\* C8: every TCB occurs at most once in all the ready FIFOs together, and
\* every FIFO walked from its head via next is finite and ends at its tail.
C8_ListDisjointness ==
    /\ \A t \in Slots : Cardinality(Occurrences(sched, t)) <= 1
    /\ \A p \in PrioRange :
          IF sched.ready_head[p] = NULL
          THEN sched.ready_tail[p] = NULL
          ELSE LET f == Fifo(sched, p)
               IN  /\ Len(f) <= MAX_TASKS
                   /\ sched.ready_tail[p] = f[Len(f)]

\* A tick has rotated a FIFO of two tasks: T2 is at the head, T1 behind it.
C8_Witness ==
    /\ nticks >= 1
    /\ \E p \in PrioRange : Fifo(sched, p) = <<2, 1>>

(* ------------------------------------------------------------------ *)
(* C9  Pool exhaustion                                                 *)
(* ------------------------------------------------------------------ *)
\* C9: a task_create call made when task_count = MAX_TASKS changes nothing
\* in the scheduler state.
C9_PoolExhaustion ==
    [][ (creates' = creates + 1 /\ sched.task_count = MAX_TASKS)
        => sched' = sched ]_vars

\* task_create has been called on a full pool.
C9_Witness ==
    /\ sched.task_count = MAX_TASKS
    /\ creates > MAX_TASKS

(* ------------------------------------------------------------------ *)
(* C10  scheduler_start                                                *)
(* ------------------------------------------------------------------ *)
\* The numerically lowest priority among the created tasks.
BestPriority(s) ==
    CHOOSE p \in PrioRange :
        /\ \E t \in Created(s) : s.task_pool[t].priority = p
        /\ \A t \in Created(s) : s.task_pool[t].priority >= p

\* The earliest-created task of that priority.
EarliestOfBest(s) ==
    CHOOSE t \in Created(s) :
        /\ s.task_pool[t].priority = BestPriority(s)
        /\ \A u \in Created(s) :
              s.task_pool[u].priority = BestPriority(s) => u >= t

\* C10: scheduler_start, called after one or more task_create calls and
\* before any tick, makes current the earliest-created task of the lowest
\* priority number, marks it Running, and loads the CPU's PC with its entry
\* address and the CPU's SP with its prepared stack pointer.
C10_StartDispatch ==
    [][ (mainpc = "init" /\ mainpc' = "started" /\ nticks = 0)
        => LET first == EarliestOfBest(sched)
           IN  /\ sched'.current = first
               /\ sched'.task_pool[first].state = TASK_RUNNING
               /\ cpu'.pc = func_of(first)
               /\ cpu'.sp = initial_sp(stack_of(first), STACK_SIZE) ]_vars

\* scheduler_start has dispatched T2, created after T1 with a better priority.
C10_Witness ==
    /\ mainpc = "started"
    /\ nticks = 0
    /\ dispatched = <<2>>
    /\ sched.current = 2
    /\ sched.task_pool[1].priority > sched.task_pool[2].priority
    /\ cpu.pc = func_of(2)

(* ------------------------------------------------------------------ *)
(* C11 - C20                                                           *)
(* ------------------------------------------------------------------ *)
\* A step of scheduler_start (the only step that takes main() out of "init"
\* other than being switched away from).
StartStep == mainpc = "init" /\ mainpc' \in {"started", "halted"}

\* C11: scheduler_start called with no task created halts: the call
\* dispatches nothing and leaves the scheduler and the CPU as they were, and
\* from then on, ticks included, current stays NULL, no task is dispatched
\* and no context switch is made.
C11_StartWithoutTasksHalts ==
    /\ [][ (StartStep /\ sched.task_count = 0)
           => (mainpc' = "halted" /\ sched' = sched /\ cpu' = cpu) ]_vars
    /\ [](mainpc = "halted"
          => /\ sched.current = NULL
             /\ sched.task_count = 0
             /\ dispatched = << >>
             /\ ~nullSwitch
             /\ cpu = BootCpu)

\* scheduler_start has halted with no task, and ticks have been handled.
C11_Witness ==
    /\ mainpc = "halted"
    /\ nticks = MaxTicks
    /\ sched.current = NULL

\* C12: a task that called sleep(0) is Sleeping no longer than until the
\* next tick: after the first tick that follows the call it is Ready (or
\* already Running) again.
C12_SleepZeroWakes ==
    [][ TickStep
        => \A t \in Created(sched) :
              ( /\ sleepLog[t].k = 0
                /\ SleepAge(t) = 0
                /\ sched.task_pool[t].state = TASK_SLEEPING )
              => sched'.task_pool[t].state \in {TASK_READY, TASK_RUNNING} ]_vars

\* A step of scheduler_init (the only step that increments inits).
InitStep == inits' = inits + 1

\* C13: scheduler_init leaves every FIFO head and tail NULL, the bitmap 0,
\* task_count 0, current NULL and tick 0; called again with no task_create
\* in between, it leaves the scheduler state exactly as the first call did.
C13_InitIdempotent ==
    [][ InitStep
        => /\ \A p \in PrioRange :
                 sched'.ready_head[p] = NULL /\ sched'.ready_tail[p] = NULL
           /\ sched'.ready_bitmap = NoBits
           /\ sched'.task_count = 0
           /\ sched'.current = NULL
           /\ sched'.tick = 0
           /\ (inits >= 1 => sched' = sched) ]_vars

\* scheduler_init has been called twice in a row.
C13_Witness ==
    /\ inits = 2
    /\ mainpc = "init"
    /\ sched.task_count = 0
    /\ sched.current = NULL

\* A call of task_create (the only step that increments creates).
CreateStep == creates' = creates + 1

\* C14: task_count never exceeds MAX_TASKS, and between scheduler_init calls
\* it never decreases: a task_create call adds exactly one to it when the
\* pool has room and leaves it alone when the pool is full, and no other
\* operation changes it.
C14_TaskCountMonotone ==
    /\ [](sched.task_count <= MAX_TASKS)
    /\ [][ ~InitStep
           => sched'.task_count =
                 IF CreateStep /\ sched.task_count < MAX_TASKS
                 THEN sched.task_count + 1
                 ELSE sched.task_count ]_vars

\* The pool has been filled by exactly MAX_TASKS calls and ticks have run.
C14_Witness ==
    /\ sched.task_count = MAX_TASKS
    /\ creates = MAX_TASKS
    /\ mainpc = "started"
    /\ nticks >= 1

(* ------------------------------------------------------------------ *)
(* main() at statement granularity, with the timer interrupt taken     *)
(* between the statements of task_create and scheduler_start           *)
(* ------------------------------------------------------------------ *)
\* task_create up to t = &sched.task_pool[sched.task_count++].
IrqCreateAlloc(prio) ==
    /\ mainpc = "init"
    /\ mainop = Idle
    /\ sched.task_count < MaxCreate
    /\ ~pool_full(sched)
    /\ sched' = slot_alloc(sched)
    /\ mainop' = [ at |-> "alloc", arg |-> prio ]
    /\ creates' = creates + 1
    /\ inits' = 0
    /\ UNCHANGED <<cpu, mainpc, nticks, dispatched, sleepLog, ntasks0, nullSwitch,
                   irq>>

\* task_create: the assignments to the fields of *t.
IrqCreateFill ==
    /\ mainpc = "init"
    /\ mainop.at = "alloc"
    /\ LET t == sched.task_count
       IN  sched' = slot_fill(sched, t, func_of(t), stack_of(t), STACK_SIZE,
                              mainop.arg)
    /\ mainop' = [mainop EXCEPT !.at = "fill"]
    /\ UNCHANGED <<cpu, mainpc, nticks, dispatched, sleepLog, ntasks0, nullSwitch,
                   creates, irq, inits>>

\* task_create: ready_enqueue(t), and the return to main().
IrqCreateEnqueue ==
    /\ mainpc = "init"
    /\ mainop.at = "fill"
    /\ sched' = ready_enqueue(sched, sched.task_count)
    /\ mainop' = Idle
    /\ UNCHANGED <<cpu, mainpc, nticks, dispatched, sleepLog, ntasks0, nullSwitch,
                   creates, irq, inits>>

\* scheduler_start: first = pick_next_task(), and the halt when it is NULL.
IrqStartPick ==
    /\ mainpc = "init"
    /\ mainop = Idle
    /\ LET pick == pick_next_task(sched)
       IN  /\ sched' = pick.s
           /\ IF pick.t = NULL
              THEN mainpc' = "halted" /\ mainop' = Idle
              ELSE mainpc' = mainpc /\ mainop' = [ at |-> "picked", arg |-> pick.t ]
    /\ UNCHANGED <<cpu, nticks, dispatched, sleepLog, ntasks0, nullSwitch,
                   creates, irq, inits>>

\* scheduler_start: current = first, first->state = TASK_RUNNING, and the
\* jump to the task.
IrqStartDispatch ==
    /\ mainpc = "init"
    /\ mainop.at = "picked"
    /\ LET first == mainop.arg
       IN  /\ sched' = start_dispatch(sched, first)
           /\ cpu' = [cpu EXCEPT !.sp = sched.task_pool[first].sp,
                                 !.pc = sched.task_pool[first].pc]
           /\ dispatched' = <<first>>
    /\ mainpc' = "started"
    /\ mainop' = Idle
    /\ ntasks0' = sched.task_count
    /\ UNCHANGED <<nticks, sleepLog, nullSwitch, creates, irq, inits>>

\* Nothing in task_create or scheduler_start masks IRQs, so the tick is
\* taken wherever main() is.
NextIrq ==
    \/ SchedulerInit
    \/ \E prio \in Prios : IrqCreateAlloc(prio)
    \/ IrqCreateFill
    \/ IrqCreateEnqueue
    \/ IrqStartPick
    \/ IrqStartDispatch
    \/ Tick

SpecIrq == Init /\ [][NextIrq]_vars

\* C15: the calls made from task context (task_create, sleep,
\* scheduler_start) and the tick never interleave: no tick is handled while
\* such a call is partway through.
C15_TickNeverInsideCall ==
    [][ TickStep => mainop = Idle ]_vars

\* The ready FIFOs of s and s2 are the same lists: heads, tails, bitmap and
\* the next link of every TCB agree.
SameQueues(s, s2) ==
    /\ s2.ready_head = s.ready_head
    /\ s2.ready_tail = s.ready_tail
    /\ s2.ready_bitmap = s.ready_bitmap
    /\ \A t \in Slots : s2.task_pool[t].next = s.task_pool[t].next

SameSaveAreas(s, s2) ==
    \A t \in Slots :
        /\ s2.task_pool[t].regs = s.task_pool[t].regs
        /\ s2.task_pool[t].sp = s.task_pool[t].sp
        /\ s2.task_pool[t].lr = s.task_pool[t].lr
        /\ s2.task_pool[t].pc = s.task_pool[t].pc

\* No task other than the running one is Ready, and the running one is
\* Running.
OnlyCurrentRunnable(s) ==
    /\ s.current # NULL
    /\ s.task_pool[s.current].state = TASK_RUNNING
    /\ \A u \in Created(s) \ {s.current} : s.task_pool[u].state # TASK_READY

\* C17: a tick at which no task other than the running one is Ready leaves
\* current and the state of current unchanged and makes no context switch:
\* the CPU registers and every save area are as they were.
C17_TickAloneKeepsCurrent ==
    [][ (TickStep /\ OnlyCurrentRunnable(sched))
        => /\ sched'.current = sched.current
           /\ sched'.task_pool[sched.current].state = TASK_RUNNING
           /\ cpu' = cpu
           /\ SameSaveAreas(sched, sched') ]_vars

\* Two ticks have been handled with T1 running and T2 asleep throughout.
C17_Witness ==
    /\ mainpc = "started"
    /\ nticks = 2
    /\ dispatched = <<2, 1, 1>>
    /\ sched.current = 1
    /\ sched.task_pool[1].state = TASK_RUNNING
    /\ sched.task_pool[2].state = TASK_SLEEPING

(* ------------------------------------------------------------------ *)
(* task_create over stack buffers of every small size                  *)
(* ------------------------------------------------------------------ *)
StackCreate ==
    /\ sched.task_count < MaxCreate
    /\ \E size \in 0 .. MaxStackWords : \E prio \in PoolPrios :
          CreateSized(size, prio)

NextStack ==
    \/ SchedulerInit
    \/ StackCreate

SpecStack == Init /\ [][NextStack]_vars

\* saved_sp lies inside the buffer [stack, stack + stack_size).
SpInBuffer(t) == t.stack <= t.sp /\ t.sp < t.stack + t.stack_size

\* C18: after task_create(entry, stack, n, prio) with n >= 16 the saved
\* stack pointer of the new task lies inside [stack, stack + n) and is at
\* least 16 words below the top: saved_sp <= stack + n - 16.
C18_StackReserve16 ==
    \A t \in Created(sched) :
        LET T == sched.task_pool[t]
        IN  T.stack_size >= 16
            => SpInBuffer(T) /\ T.sp <= T.stack + T.stack_size - 16

\* C18 as amended: the 16-word reserve is kept from n >= 32 on, where
\* saved_sp = stack + n - 16; for 1 <= n < 32 saved_sp = stack + n - 1, the
\* last word of the buffer; in both cases saved_sp lies inside
\* [stack, stack + n).
C18_StackReserve32 ==
    \A t \in Created(sched) :
        LET T == sched.task_pool[t]
        IN  /\ T.stack_size >= 32
               => SpInBuffer(T) /\ T.sp = T.stack + T.stack_size - 16
            /\ (1 <= T.stack_size /\ T.stack_size < 32)
               => SpInBuffer(T) /\ T.sp = T.stack + T.stack_size - 1

\* One task has been created on a 32-word stack and one on a 16-word stack.
C18_Witness ==
    /\ sched.task_count = 2
    /\ sched.task_pool[1].stack_size = 32
    /\ sched.task_pool[1].sp = stack_of(1) + 16
    /\ sched.task_pool[2].stack_size = 16
    /\ sched.task_pool[2].sp = stack_of(2) + 15

\* C19: every tick increments the tick counter by exactly one: after n ticks
\* following scheduler_init, sched.tick is n (n stays far below 2^32 here),
\* and no other operation changes it.
C19_TickCounts ==
    sched.tick = nticks

(* ------------------------------------------------------------------ *)
(* Tasks that compute between ticks: the registers the context switch  *)
(* saves and restores take different values                            *)
(* ------------------------------------------------------------------ *)
\* The running task executes its loop: it leaves values of its own in
\* r4-r11 and lr, and has v words pushed on its stack.
RunTask(v) ==
    /\ mainpc \in {"started", "lost"}
    /\ sched.current # NULL
    /\ LET t == sched.current
       IN  cpu' = [ regs |-> [i \in 1..8 |-> v * i],
                    sp   |-> initial_sp(sched.task_pool[t].stack,
                                       sched.task_pool[t].stack_size) - v,
                    lr   |-> func_of(t) + v,
                    pc   |-> func_of(t) ]
    /\ UNCHANGED <<sched, mainpc, nticks, dispatched, sleepLog, ntasks0,
                   nullSwitch, creates, irq, mainop, inits>>

NextSwitch ==
    \/ SchedulerInit
    \/ TaskCreate
    \/ SchedulerStart
    \/ \E v \in 0 .. MaxRegVal : RunTask(v)
    \/ Tick

SpecSwitch == Init /\ [][NextSwitch]_vars

\* A tick that ends in task_switch: current changes.
SwitchStep == TickStep /\ sched'.current # sched.current

\* The save area of task t in s holds the registers of c and the resume
\* address of task_switch.
SavedFrom(s, t, c) ==
    /\ s.task_pool[t].regs = c.regs
    /\ s.task_pool[t].sp = c.sp
    /\ s.task_pool[t].lr = c.lr
    /\ s.task_pool[t].pc = SWITCH_RESUME

\* The save area of task t is in s2 what it is in s.
SameSaveArea(s, s2, t) ==
    /\ s2.task_pool[t].regs = s.task_pool[t].regs
    /\ s2.task_pool[t].sp = s.task_pool[t].sp
    /\ s2.task_pool[t].lr = s.task_pool[t].lr
    /\ s2.task_pool[t].pc = s.task_pool[t].pc

\* C20: a context switch stores the outgoing task's r4-r11, sp and lr and the
\* resume address in that task's save area and touches neither another
\* task's save area nor the stack, stack_size or priority of any TCB; the
\* save area of a task is not changed while it is switched out; and the
\* incoming task gets exactly what its save area holds.  So a task switched
\* out and later switched back in resumes after its task_switch call with
\* the r4-r11, sp and lr it had.
C20_SwitchRoundTrip ==
    /\ [][ SwitchStep
           => LET out == sched.current
                  in  == sched'.current
              IN  /\ out # NULL => SavedFrom(sched', out, cpu)
                  /\ \A t \in Slots \ {out} : SameSaveArea(sched, sched', t)
                  /\ \A t \in Slots :
                        /\ sched'.task_pool[t].stack = sched.task_pool[t].stack
                        /\ sched'.task_pool[t].stack_size
                              = sched.task_pool[t].stack_size
                        /\ sched'.task_pool[t].priority
                              = sched.task_pool[t].priority
                  /\ cpu' = [ regs |-> sched.task_pool[in].regs,
                              sp   |-> sched.task_pool[in].sp,
                              lr   |-> sched.task_pool[in].lr,
                              pc   |-> sched.task_pool[in].pc ] ]_vars
    /\ [][ (~SwitchStep /\ ~InitStep)
           => \A t \in Created(sched) : SameSaveArea(sched, sched', t) ]_vars

\* T1 has been switched out with registers of its own and is running again
\* from the resume address with those registers, while T2 is switched out.
C20_Witness ==
    /\ mainpc = "started"
    /\ sched.current = 1
    /\ cpu.pc = SWITCH_RESUME
    /\ cpu.regs[8] = 8
    /\ cpu.lr = func_of(1) + 1
    /\ cpu.sp = initial_sp(stack_of(1), STACK_SIZE) - 1
    /\ sched.task_pool[2].pc = SWITCH_RESUME

(* ------------------------------------------------------------------ *)
(* C21                                                                 *)
(* ------------------------------------------------------------------ *)
\* C21: task_switch is never invoked with a NULL outgoing TCB, and no task
\* is dispatched before scheduler_start runs: a tick taken after
\* scheduler_init and before scheduler_start leaves current NULL and the CPU
\* in main(), whatever tasks have been created.
C21_NoDispatchBeforeStart ==
    [][ /\ ~nullSwitch'
        /\ (TickStep /\ mainpc = "init")
           => (sched'.current = NULL /\ cpu' = cpu) ]_vars

====
